---- MODULE Spec2Model ----
(***************************************************************************)
(* DemoStats: a Discord bot that records messages, attachments, X/Twitter  *)
(* links and voice sessions in SQLite (better-sqlite3) and answers the     *)
(* /userstats query.  The model follows src/index.js.  The message and the *)
(* voice handler run to completion without yielding: better-sqlite3 is     *)
(* synchronous and they contain no await between their statements, so one  *)
(* handler is one action.  The /userstats handler awaits deferReply()      *)
(* before it reads: InteractionCreate is the handler with nothing running  *)
(* meanwhile, InteractionDefer and InteractionResume are its two halves.   *)
(***************************************************************************)
EXTENDS Integers, Sequences, FiniteSets, TLC

\* ------------------------------------------------------------------ bounds
MaxSessions == 2   \* rows of voice_sessions
MaxMessages == 3   \* rows of messages
MaxPairSessions == 3  \* rows of voice_sessions when one pair alone is followed
MaxMinutes == 125  \* whole minutes of the durations that are rendered

\* ------------------------------------------------------------- the inputs
Guilds == {"g1", "g2"}
Users == {"u1", "u2"}
Channels == {"A", "B"}
NoChannel == "none"
NoGuild == "none"
NoMember == [id |-> "none", bot |-> FALSE]
Human(u) == [id |-> u, bot |-> FALSE]
Bot == [id |-> "b1", bot |-> TRUE]
\* the (guild, user) pairs of the events and queries: u2 is a member of g1 only
Pairs == (Guilds \X Users) \ {<<"g2", "u2">>}
\* the pairs seen joining a voice channel; u1 was connected in g2 before the
\* bot started, and only its leave is seen
VoicePairs == {<<"g1", "u1">>, <<"g1", "u2">>}

\* SQL NULL; a non-NULL integer v of a nullable column is <<v>>
NULL == << >>

VARIABLES
  guild_users,      \* table guild_users, rows in rowid order
  messages,         \* table messages, rows in rowid order
  voice_sessions,   \* table voice_sessions, rows in rowid order (id = index)
  messageIdUnique,  \* whether messages.message_id carries the UNIQUE constraint
  clock,            \* index of the current wall-clock reading
  outcome,          \* how the last handler ended: "ok" or "logged" (its catch ran)
  reply,            \* what the last handler returned to the user, if anything
  last,             \* history: the event handled by the last step
  stream,           \* history: the voice events of the watched pair so far
  scen,             \* history: progress of the watched pair's events along the scenario
  deferred          \* the /userstats interaction awaiting its deferReply(), if any

vars == <<guild_users, messages, voice_sessions, messageIdUnique, clock,
          outcome, reply, last, stream, scen, deferred>>
store == <<guild_users, messages, voice_sessions>>

\* ------------------------------------------------------------- the clock
\* The seconds the wall clock shows when the process reads it, in order; the
\* clock never runs backwards.
Readings == <<1000, 1500, 1800>>
MaxTick == Len(Readings) - 1
Reading(k) == Readings[k + 1]

\* nowTs(): Math.floor(Date.now() / 1000)
nowTs == Reading(clock)

\* ------------------------------------------------- the prepared statements
insertVoiceSession(tbl, guild_id, user_id, channel_id, joined_at) ==
  Append(tbl, [guild_id |-> guild_id, user_id |-> user_id, channel_id |-> channel_id,
               joined_at |-> joined_at, left_at |-> NULL, duration_seconds |-> NULL])

NoRow == [id |-> 0, joined_at |-> 0]

\* Faulty variant: the condition left_at IS NULL is missing.
selectAnyVoiceSession(tbl, guildId, userId) ==
  LET any == {i \in DOMAIN tbl : tbl[i].guild_id = guildId /\ tbl[i].user_id = userId}
      top == {i \in any : \A j \in any : tbl[j].joined_at <= tbl[i].joined_at}
  IN IF any = {} THEN {[id |-> 0, joined_at |-> 0]}
     ELSE {[id |-> i, joined_at |-> tbl[i].joined_at] : i \in top}

\* Faulty variant: ORDER BY joined_at ASC, the oldest open row.
selectOldestOpenVoiceSession(tbl, guildId, userId) ==
  LET open == {i \in DOMAIN tbl : /\ tbl[i].guild_id = guildId
                                  /\ tbl[i].user_id = userId
                                  /\ tbl[i].left_at = NULL}
      low == {i \in open : \A j \in open : tbl[i].joined_at <= tbl[j].joined_at}
  IN IF open = {} THEN {[id |-> 0, joined_at |-> 0]}
     ELSE {[id |-> i, joined_at |-> tbl[i].joined_at] : i \in low}

\* Faulty variant: the condition user_id = ? is missing.
selectOpenVoiceSessionOfGuild(tbl, guildId, userId) ==
  LET open == {i \in DOMAIN tbl : tbl[i].guild_id = guildId /\ tbl[i].left_at = NULL}
      top == {i \in open : \A j \in open : tbl[j].joined_at <= tbl[i].joined_at}
  IN IF open = {} THEN {[id |-> 0, joined_at |-> 0]}
     ELSE {[id |-> i, joined_at |-> tbl[i].joined_at] : i \in top}

\* The rows .get() may return: LIMIT 1 of the open rows of (guild, user) by
\* joined_at DESC; SQLite leaves the order of equal joined_at open, so every
\* row of the greatest joined_at is a possible result.  NoRow is undefined.
selectOpenVoiceSession(tbl, guildId, userId) ==
  LET open == {i \in DOMAIN tbl : /\ tbl[i].guild_id = guildId
                                  /\ tbl[i].user_id = userId
                                  /\ tbl[i].left_at = NULL}
      top == {i \in open : \A j \in open : tbl[j].joined_at <= tbl[i].joined_at}
  IN IF open = {} THEN {NoRow}
     ELSE {[id |-> i, joined_at |-> tbl[i].joined_at] : i \in top}

\* Faulty variant: the WHERE id = @id is missing, every row is updated.
updateEveryVoiceSessionLeave(tbl, left_at, duration, id) ==
  [i \in DOMAIN tbl |->
     [tbl[i] EXCEPT !.left_at = <<left_at>>, !.duration_seconds = <<duration>>]]

updateVoiceSessionLeave(tbl, left_at, duration, id) ==
  [i \in DOMAIN tbl |->
     IF i = id
     THEN [tbl[i] EXCEPT !.left_at = <<left_at>>, !.duration_seconds = <<duration>>]
     ELSE tbl[i]]

\* ------------------------------------------------------ voice session handling
\* Faulty variant: the open session is never closed.
CloseOpenSessionNever(tbl, res, leftAt) == tbl

\* The leave half shared by the leave and the switch branch.
CloseOpenSession(tbl, res, leftAt) ==
  IF res # NoRow
  THEN updateVoiceSessionLeave(tbl, leftAt, leftAt - res.joined_at, res.id)
  ELSE tbl

\* Faulty variant: a join also writes the presence row of the member.
onVoiceUpdateSeen(oldState, newState) ==
  LET member == IF newState.member # NoMember THEN newState.member ELSE oldState.member
      guild == IF newState.guild # NoGuild THEN newState.guild ELSE oldState.guild
  IN /\ outcome' = "ok"
     /\ UNCHANGED <<messages, messageIdUnique>>
     /\ IF member = NoMember \/ member.bot \/ guild = NoGuild
        THEN UNCHANGED <<guild_users, voice_sessions, clock>>
        ELSE IF oldState.channel = NoChannel /\ newState.channel # NoChannel
        THEN /\ voice_sessions' =
                  insertVoiceSession(voice_sessions, guild, member.id, newState.channel, nowTs)
             /\ guild_users' =
                  IF \E i \in DOMAIN guild_users :
                       guild_users[i].guild_id = guild /\ guild_users[i].user_id = member.id
                  THEN guild_users
                  ELSE Append(guild_users, [guild_id |-> guild, user_id |-> member.id,
                                            first_seen |-> nowTs, last_seen |-> nowTs])
             /\ UNCHANGED clock
        ELSE IF oldState.channel # NoChannel /\ newState.channel = NoChannel
        THEN /\ \E res \in selectOpenVoiceSession(voice_sessions, guild, member.id) :
                  voice_sessions' = CloseOpenSession(voice_sessions, res, nowTs)
             /\ UNCHANGED <<guild_users, clock>>
        ELSE IF /\ oldState.channel # NoChannel
                /\ newState.channel # NoChannel
                /\ oldState.channel # newState.channel
        THEN /\ \E res \in selectOpenVoiceSession(voice_sessions, guild, member.id) :
                  \E c2 \in clock..MaxTick :
                    /\ clock' = c2
                    /\ voice_sessions' =
                         insertVoiceSession(CloseOpenSession(voice_sessions, res, nowTs),
                                            guild, member.id, newState.channel, Reading(c2))
             /\ UNCHANGED guild_users
        ELSE UNCHANGED <<guild_users, voice_sessions, clock>>

\* Faulty variant: the switch branch does not compare the two channel ids.
onVoiceUpdateSameChannel(oldState, newState) ==
  LET member == IF newState.member # NoMember THEN newState.member ELSE oldState.member
      guild == IF newState.guild # NoGuild THEN newState.guild ELSE oldState.guild
  IN /\ outcome' = "ok"
     /\ UNCHANGED <<guild_users, messages, messageIdUnique>>
     /\ IF member = NoMember \/ member.bot \/ guild = NoGuild
        THEN UNCHANGED <<voice_sessions, clock>>
        ELSE IF oldState.channel = NoChannel /\ newState.channel # NoChannel
        THEN /\ voice_sessions' =
                  insertVoiceSession(voice_sessions, guild, member.id, newState.channel, nowTs)
             /\ UNCHANGED clock
        ELSE IF oldState.channel # NoChannel /\ newState.channel = NoChannel
        THEN /\ \E res \in selectOpenVoiceSession(voice_sessions, guild, member.id) :
                  voice_sessions' = CloseOpenSession(voice_sessions, res, nowTs)
             /\ UNCHANGED clock
        ELSE IF oldState.channel # NoChannel /\ newState.channel # NoChannel
        THEN \E res \in selectOpenVoiceSession(voice_sessions, guild, member.id) :
               \E c2 \in clock..MaxTick :
                 /\ clock' = c2
                 /\ voice_sessions' =
                      insertVoiceSession(CloseOpenSession(voice_sessions, res, nowTs),
                                         guild, member.id, newState.channel, Reading(c2))
        ELSE UNCHANGED <<voice_sessions, clock>>

onVoiceUpdate(oldState, newState) ==
  LET member == IF newState.member # NoMember THEN newState.member ELSE oldState.member
      guild == IF newState.guild # NoGuild THEN newState.guild ELSE oldState.guild
  IN /\ outcome' = "ok"
     /\ UNCHANGED <<guild_users, messages, messageIdUnique>>
     /\ IF member = NoMember \/ member.bot \/ guild = NoGuild
        THEN UNCHANGED <<voice_sessions, clock>>
        ELSE IF oldState.channel = NoChannel /\ newState.channel # NoChannel
        THEN \* join
             /\ voice_sessions' =
                  insertVoiceSession(voice_sessions, guild, member.id, newState.channel, nowTs)
             /\ UNCHANGED clock
        ELSE IF oldState.channel # NoChannel /\ newState.channel = NoChannel
        THEN \* leave
             /\ \E res \in selectOpenVoiceSession(voice_sessions, guild, member.id) :
                  voice_sessions' = CloseOpenSession(voice_sessions, res, nowTs)
             /\ UNCHANGED clock
        ELSE IF /\ oldState.channel # NoChannel
                /\ newState.channel # NoChannel
                /\ oldState.channel # newState.channel
        THEN \* switch: the second nowTs() may read a later second than the first
             \E res \in selectOpenVoiceSession(voice_sessions, guild, member.id) :
               \E c2 \in clock..MaxTick :
                 /\ clock' = c2
                 /\ voice_sessions' =
                      insertVoiceSession(CloseOpenSession(voice_sessions, res, nowTs),
                                         guild, member.id, newState.channel, Reading(c2))
        ELSE UNCHANGED <<voice_sessions, clock>>

\* onVoiceUpdate when the statement failAt ("select", "update" or "insert")
\* throws: the statements before it have run, those after it have not, and
\* the catch at the end of the handler logs the error.
onVoiceUpdateFailing(oldState, newState, failAt) ==
  LET member == IF newState.member # NoMember THEN newState.member ELSE oldState.member
      guild == IF newState.guild # NoGuild THEN newState.guild ELSE oldState.guild
  IN /\ ~(member = NoMember \/ member.bot \/ guild = NoGuild)
     /\ outcome' = "logged"
     /\ UNCHANGED <<guild_users, messages, messageIdUnique>>
     /\ IF oldState.channel = NoChannel /\ newState.channel # NoChannel
        THEN /\ failAt = "insert"
             /\ UNCHANGED <<voice_sessions, clock>>
        ELSE IF oldState.channel # NoChannel /\ newState.channel = NoChannel
        THEN /\ \E res \in selectOpenVoiceSession(voice_sessions, guild, member.id) :
                  failAt = "select" \/ (failAt = "update" /\ res # NoRow)
             /\ UNCHANGED <<voice_sessions, clock>>
        ELSE IF /\ oldState.channel # NoChannel
                /\ newState.channel # NoChannel
                /\ oldState.channel # newState.channel
        THEN \E res \in selectOpenVoiceSession(voice_sessions, guild, member.id) :
               \/ /\ failAt = "select" \/ (failAt = "update" /\ res # NoRow)
                  /\ UNCHANGED <<voice_sessions, clock>>
               \/ /\ failAt = "insert"
                  /\ voice_sessions' = CloseOpenSession(voice_sessions, res, nowTs)
                  /\ clock' \in clock..MaxTick
        ELSE FALSE

\* ------------------------------------------------------------ X / Twitter links
\* X_LINK_REGEX, flags g and i:
\*   (?:https?:\/\/)?(?:www\.)?(?:x\.com|twitter\.com|t\.co)\/[^\s/$.?#].[^\s]*
WhiteSpace == {" ", "\t", "\n", "\r"}
LineTerminator == {"\n", "\r"}

At(s, i) == SubSeq(s, i, i)

\* the i flag: letters compare without case
Lower(c) ==
  CASE c = "C" -> "c" [] c = "E" -> "e" [] c = "H" -> "h" [] c = "I" -> "i"
    [] c = "M" -> "m" [] c = "O" -> "o" [] c = "P" -> "p" [] c = "R" -> "r"
    [] c = "S" -> "s" [] c = "T" -> "t" [] c = "W" -> "w" [] c = "X" -> "x"
    [] OTHER -> c

\* the literal lit (lower case) stands in s at position i
HasLiteral(s, i, lit) ==
  /\ i + Len(lit) - 1 <= Len(s)
  /\ \A k \in 1..Len(lit) : Lower(At(s, i + k - 1)) = At(lit, k)

\* (?:https?:\/\/)? : the position after the optional scheme
AfterScheme(s, i) ==
  IF HasLiteral(s, i, "https://") THEN i + 8
  ELSE IF HasLiteral(s, i, "http://") THEN i + 7
  ELSE i

\* (?:www\.)?
AfterWww(s, i) == IF HasLiteral(s, i, "www.") THEN i + 4 ELSE i

\* (?:x\.com|twitter\.com|t\.co) : the position after the host, 0 when none stands there
AfterHost(s, i) ==
  IF HasLiteral(s, i, "x.com") THEN i + 5
  ELSE IF HasLiteral(s, i, "twitter.com") THEN i + 11
  ELSE IF HasLiteral(s, i, "t.co") THEN i + 4
  ELSE 0

\* [^\s]* : the position after the longest run of non-space characters from i
RECURSIVE AfterNonSpace(_, _)
AfterNonSpace(s, i) ==
  IF i <= Len(s) /\ At(s, i) \notin WhiteSpace THEN AfterNonSpace(s, i + 1) ELSE i

\* The position after the match that starts at i, 0 when no match starts at i.
\* An optional group that matched is never given up: what follows it would have
\* to start with "h" or "w", and no later part of the pattern does.
MatchEnd(s, i) ==
  LET h == AfterHost(s, AfterWww(s, AfterScheme(s, i)))
  IN IF /\ h # 0
        /\ h + 2 <= Len(s)
        /\ At(s, h) = "/"
        /\ At(s, h + 1) \notin WhiteSpace \cup {"/", "$", ".", "?", "#"}
        /\ At(s, h + 2) \notin LineTerminator
     THEN AfterNonSpace(s, h + 3)
     ELSE 0

\* content.match(X_LINK_REGEX): the number of matches, leftmost first, each
\* search starting where the previous match ended
RECURSIVE MatchCountFrom(_, _)
MatchCountFrom(s, i) ==
  IF i > Len(s) THEN 0
  ELSE IF MatchEnd(s, i) # 0 THEN 1 + MatchCountFrom(s, MatchEnd(s, i))
  ELSE MatchCountFrom(s, i + 1)

XLinkCount(content) == IF content # "" THEN MatchCountFrom(content, 1) ELSE 0

\* --------------------------------------------------------------- message logging
\* Faulty variant: INSERT OR REPLACE, the row of the pair is written anew.
replaceUser(tbl, guild_id, user_id, ts) ==
  IF \E i \in DOMAIN tbl : tbl[i].guild_id = guild_id /\ tbl[i].user_id = user_id
  THEN [i \in DOMAIN tbl |->
          IF tbl[i].guild_id = guild_id /\ tbl[i].user_id = user_id
          THEN [tbl[i] EXCEPT !.first_seen = ts, !.last_seen = ts]
          ELSE tbl[i]]
  ELSE Append(tbl, [guild_id |-> guild_id, user_id |-> user_id,
                    first_seen |-> ts, last_seen |-> ts])

\* INSERT ... ON CONFLICT(guild_id, user_id) DO UPDATE SET last_seen = @ts
insertOrUpdateUser(tbl, guild_id, user_id, ts) ==
  IF \E i \in DOMAIN tbl : tbl[i].guild_id = guild_id /\ tbl[i].user_id = user_id
  THEN [i \in DOMAIN tbl |->
          IF tbl[i].guild_id = guild_id /\ tbl[i].user_id = user_id
          THEN [tbl[i] EXCEPT !.last_seen = ts]
          ELSE tbl[i]]
  ELSE Append(tbl, [guild_id |-> guild_id, user_id |-> user_id,
                    first_seen |-> ts, last_seen |-> ts])

\* INSERT OR IGNORE INTO messages: a row that would break a constraint of the
\* table is skipped.  unique: message_id is declared UNIQUE (the table of
\* index.js); the table created by the earlier schema kept in
\* migrate_add_xcol.js declares no such constraint.
insertMessage(tbl, unique, row) ==
  IF unique /\ \E i \in DOMAIN tbl : tbl[i].message_id = row.message_id
  THEN tbl
  ELSE Append(tbl, row)

\* message.attachments?.size, undefined when there is no collection
AttachmentsSize(message) ==
  IF message.attachments = NULL THEN 0 ELSE message.attachments[1]

\* Faulty variant: the author is not tested for being a bot.
logMessageToDBAnyAuthor(message) ==
  /\ UNCHANGED <<voice_sessions, messageIdUnique, clock>>
  /\ IF message.guild = NoGuild
     THEN /\ outcome' = "ok"
          /\ UNCHANGED <<guild_users, messages>>
     ELSE IF message.author = NoMember
     THEN /\ outcome' = "logged"
          /\ UNCHANGED <<guild_users, messages>>
     ELSE /\ outcome' = "ok"
          /\ guild_users' =
               insertOrUpdateUser(guild_users, message.guild, message.author.id, nowTs)
          /\ messages' =
               insertMessage(messages, messageIdUnique,
                             [guild_id |-> message.guild,
                              channel_id |-> message.channel,
                              user_id |-> message.author.id,
                              message_id |-> message.id,
                              created_at |-> nowTs,
                              has_attachment |-> IF AttachmentsSize(message) > 0 THEN 1 ELSE 0,
                              attachment_count |-> AttachmentsSize(message),
                              x_link_count |-> XLinkCount(message.content)])

logMessageToDB(message) ==
  /\ UNCHANGED <<voice_sessions, messageIdUnique, clock>>
  /\ IF message.guild = NoGuild \/ message.author.bot
     THEN /\ outcome' = "ok"
          /\ UNCHANGED <<guild_users, messages>>
     ELSE IF message.author = NoMember
     THEN \* message.author.id throws a TypeError, caught at the end of the handler
          /\ outcome' = "logged"
          /\ UNCHANGED <<guild_users, messages>>
     ELSE LET ts == nowTs
              hasAttachment == IF AttachmentsSize(message) > 0 THEN 1 ELSE 0
              attachmentCount == AttachmentsSize(message)
              xCount == XLinkCount(message.content)
          IN /\ outcome' = "ok"
             /\ guild_users' =
                  insertOrUpdateUser(guild_users, message.guild, message.author.id, ts)
             /\ messages' =
                  insertMessage(messages, messageIdUnique,
                                [guild_id |-> message.guild,
                                 channel_id |-> message.channel,
                                 user_id |-> message.author.id,
                                 message_id |-> message.id,
                                 created_at |-> ts,
                                 has_attachment |-> hasAttachment,
                                 attachment_count |-> attachmentCount,
                                 x_link_count |-> xCount])

\* logMessageToDB when the statement failAt ("upsert" or "insert") throws
logMessageToDBFailing(message, failAt) ==
  /\ message.guild # NoGuild
  /\ ~message.author.bot
  /\ message.author # NoMember
  /\ outcome' = "logged"
  /\ UNCHANGED <<voice_sessions, messageIdUnique, clock, messages>>
  /\ \/ /\ failAt = "upsert"
        /\ UNCHANGED guild_users
     \/ /\ failAt = "insert"
        /\ guild_users' =
             insertOrUpdateUser(guild_users, message.guild, message.author.id, nowTs)

\* ------------------------------------------------------------------- the stats
\* SUM over a column: NULL values are skipped, no value at all gives NULL
RECURSIVE SqlSumFrom(_, _)
SqlSumFrom(col, i) ==
  IF i > Len(col) THEN NULL
  ELSE LET rest == SqlSumFrom(col, i + 1)
       IN IF col[i] = NULL THEN rest
          ELSE IF rest = NULL THEN col[i]
          ELSE <<col[i][1] + rest[1]>>

SqlSum(col) == SqlSumFrom(col, 1)

Coalesce(v, d) == IF v = NULL THEN <<d>> ELSE v

\* the JavaScript ?? on a value read from a row
OrElse(v, d) == IF v = NULL THEN d ELSE v[1]

\* Faulty variant: the condition guild_id = ? is missing.
MessagesOfUser(guildId, userId) ==
  SelectSeq(messages, LAMBDA r : r.user_id = userId)

\* Faulty variant: the condition user_id = ? is missing.
MessagesOfGuild(guildId, userId) ==
  SelectSeq(messages, LAMBDA r : r.guild_id = guildId)

\* ... FROM messages WHERE guild_id = ? AND user_id = ?
MessagesOf(guildId, userId) ==
  SelectSeq(messages, LAMBDA r : r.guild_id = guildId /\ r.user_id = userId)

\* Faulty variant: the condition user_id = ? is missing.
SessionsOfGuild(guildId, userId) ==
  SelectSeq(voice_sessions, LAMBDA r : r.guild_id = guildId)

\* ... FROM voice_sessions WHERE guild_id = ? AND user_id = ?
SessionsOf(guildId, userId) ==
  SelectSeq(voice_sessions, LAMBDA r : r.guild_id = guildId /\ r.user_id = userId)

\* Faulty variant: the minutes are not reduced modulo the hour.
secondsToHrsAllMin(sec) ==
  LET h == sec \div 3600
      m == sec \div 60
  IN ToString(h) \o "h " \o ToString(m) \o "m"

secondsToHrsMin(sec) ==
  LET h == sec \div 3600
      m == (sec % 3600) \div 60
  IN ToString(h) \o "h " \o ToString(m) \o "m"

NoReply ==
  [kind |-> "none", totalMessages |-> 0, totalAttachments |-> 0,
   totalVoiceSec |-> 0, totalXLinks |-> 0, voiceTime |-> ""]

buildStatsEmbed(guildId, userId) ==
  LET rows == MessagesOf(guildId, userId)
      msgRow == [total_messages |-> <<Len(rows)>>,
                 total_attachments |->
                   Coalesce(SqlSum([i \in DOMAIN rows |-> <<rows[i].attachment_count>>]), 0)]
      sess == SessionsOf(guildId, userId)
      voiceRow == [total_voice |->
                     Coalesce(SqlSum([i \in DOMAIN sess |-> sess[i].duration_seconds]), 0)]
      xRow == [total_x_links |->
                 Coalesce(SqlSum([i \in DOMAIN rows |-> <<rows[i].x_link_count>>]), 0)]
      totalVoiceSec == OrElse(voiceRow.total_voice, 0)
  IN [kind |-> "embed",
      totalMessages |-> OrElse(msgRow.total_messages, 0),
      totalAttachments |-> OrElse(msgRow.total_attachments, 0),
      totalVoiceSec |-> totalVoiceSec,
      totalXLinks |-> OrElse(xRow.total_x_links, 0),
      voiceTime |-> secondsToHrsMin(totalVoiceSec)]

\* Faulty variant: the catch answers with the embed of a user without rows.
ZeroEmbed ==
  [kind |-> "embed", totalMessages |-> 0, totalAttachments |-> 0,
   totalVoiceSec |-> 0, totalXLinks |-> 0, voiceTime |-> "0h 0m"]

\* the embed of the catch of buildStatsEmbed: a title and the description
\* 'Error building stats', no field
FallbackEmbed ==
  [kind |-> "Error building stats", totalMessages |-> NULL, totalAttachments |-> NULL,
   totalVoiceSec |-> NULL, totalXLinks |-> NULL, voiceTime |-> ""]

\* ------------------------------------------------------------- the events
\* voiceStateUpdate events: every member, guild and pair of channels, and the
\* events whose member or guild cannot be resolved
VoiceState(member, guild, channel) ==
  [member |-> member, guild |-> guild, channel |-> channel]

VoiceEvents ==
  {[oldState |-> VoiceState(Human(p[2]), p[1], a),
    newState |-> VoiceState(Human(p[2]), p[1], b)] :
     p \in VoicePairs, a \in Channels \cup {NoChannel}, b \in Channels \cup {NoChannel}}
  \cup
  {[oldState |-> VoiceState(Human("u1"), "g2", "A"),
    newState |-> VoiceState(Human("u1"), "g2", NoChannel)]}
  \cup
  {[oldState |-> VoiceState(Bot, "g1", a), newState |-> VoiceState(Bot, "g1", "B")] :
     a \in {NoChannel, "A"}}
  \cup
  {[oldState |-> VoiceState(mo, go, NoChannel), newState |-> VoiceState(mn, gn, "A")] :
     mo \in {NoMember, Human("u1")},
     mn \in {NoMember},
     go \in {NoGuild, "g1"}, gn \in {NoGuild}}

\* messageCreate events.  A message id names one message, so an event that is
\* delivered again carries the same fields.
Message(id, guild, channel, author, attachments, content) ==
  [id |-> id, guild |-> guild, channel |-> channel, author |-> author,
   attachments |-> attachments, content |-> content]

MessageEvents ==
  {Message("m1", "g1", "t1", Human("u1"), <<0>>, "see x.com/ab"),
   Message("m2", "g1", "t1", Human("u1"), <<2>>, ""),
   Message("m3", "g1", "t2", Human("u1"), <<1>>, "hello x.com/a"),
   Message("m4", "g1", "t1", Human("u2"), NULL, "https://www.Twitter.com/a_b T.CO/c x.com/d x.com/ef"),
   Message("m6", "g1", "t1", Bot, <<1>>, "x.com/ab"),
   Message("m7", NoGuild, "dm", Human("u1"), <<1>>, "x.com/ab"),
   Message("m8", "g1", "t1", NoMember, <<0>>, "")}

\* interactionCreate events
Interaction(chatInput, guild, commandName, target) ==
  [chatInput |-> chatInput, guild |-> guild, commandName |-> commandName,
   target |-> target]

Interactions ==
  {Interaction(TRUE, p[1], "userstats", p[2]) : p \in Pairs}
  \cup {Interaction(FALSE, "g1", "userstats", "u1"),
        Interaction(TRUE, NoGuild, "userstats", "u1"),
        Interaction(TRUE, "g1", "other", "u1")}

\* no interaction is between its deferReply() and its editReply()
NoDeferred == [guild |-> "none", target |-> "none", messagesThen |-> 0]

\* ------------------------------------------------------------ the history
NoEvent ==
  [op |-> "init", guild |-> "none", user |-> "none", arg |-> "none", pre |-> 0]

EventMember(e) ==
  IF e.newState.member # NoMember THEN e.newState.member ELSE e.oldState.member

EventGuild(e) ==
  IF e.newState.guild # NoGuild THEN e.newState.guild ELSE e.oldState.guild

\* what a voice event is: ignored, join, leave, switch or nochange
VoiceKind(e) ==
  IF EventMember(e) = NoMember \/ EventMember(e).bot \/ EventGuild(e) = NoGuild
  THEN "ignored"
  ELSE IF e.oldState.channel = NoChannel /\ e.newState.channel # NoChannel THEN "join"
  ELSE IF e.oldState.channel # NoChannel /\ e.newState.channel = NoChannel THEN "leave"
  ELSE IF e.oldState.channel # e.newState.channel THEN "switch"
  ELSE "nochange"

OpenIds(g, u) ==
  {i \in DOMAIN voice_sessions : /\ voice_sessions[i].guild_id = g
                                 /\ voice_sessions[i].user_id = u
                                 /\ voice_sessions[i].left_at = NULL}

ClosedIds(g, u) ==
  {i \in DOMAIN voice_sessions : /\ voice_sessions[i].guild_id = g
                                 /\ voice_sessions[i].user_id = u
                                 /\ voice_sessions[i].left_at # NULL}

\* The pair whose stream of join, leave and switch events is recorded.
Watched == <<"g1", "u1">>

NoStream == [pending |-> 0, followed |-> 0, strict |-> TRUE, lastTs |-> 0]
NotStrict == [pending |-> 0, followed |-> 0, strict |-> FALSE, lastTs |-> 0]

\* pending: the joins (and open halves of switches) no leave or switch has
\* followed yet; followed: those one has followed; strict: the timestamps of
\* the events have been strictly increasing (nothing else is recorded once
\* they were not); lastTs: the timestamp of the last event
StreamAfter(st, kind, ts) ==
  IF ~st.strict \/ ts <= st.lastTs THEN NotStrict
  ELSE [pending |-> CASE kind = "join" -> st.pending + 1
                      [] kind = "leave" -> 0
                      [] OTHER -> 1,
        followed |-> IF kind = "join" THEN st.followed ELSE st.followed + st.pending,
        strict |-> TRUE,
        lastTs |-> ts]

\* The scenario: join on A at 1000, switch to B at 1500, leave at 1800.
\* scen counts the events of the watched pair that followed it so far, -1 once
\* one did not.
ScenAfter(n, e, kind, t1, t2) ==
  IF /\ n = 0 /\ kind = "join" /\ e.newState.channel = "A" /\ t1 = 1000 THEN 1
  ELSE IF /\ n = 1 /\ kind = "switch" /\ e.oldState.channel = "A"
          /\ e.newState.channel = "B" /\ t1 = 1500 /\ t2 = 1500 THEN 2
  ELSE IF /\ n = 2 /\ kind = "leave" /\ e.oldState.channel = "B" /\ t1 = 1800 THEN 3
  ELSE -1

\* --------------------------------------------------------------- the listeners
\* client.on('voiceStateUpdate'): one event, handled to the end
VoiceStateUpdate(e) ==
  LET kind == VoiceKind(e)
      g == EventGuild(e)
      u == EventMember(e).id
  IN /\ onVoiceUpdate(e.oldState, e.newState)
     /\ Len(voice_sessions') <= MaxSessions
     /\ reply' = NoReply
     /\ last' = IF kind \in {"ignored", "nochange"} THEN [NoEvent EXCEPT !.op = kind]
                ELSE [op |-> kind, guild |-> g, user |-> u,
                      arg |-> e.newState.channel,
                      pre |-> Cardinality(OpenIds(g, u))]
     /\ UNCHANGED <<stream, scen, deferred>>

\* the same, with the events of the watched pair recorded
WatchedVoiceStateUpdate(e) ==
  LET kind == VoiceKind(e)
      watched == kind # "ignored" /\ <<EventGuild(e), EventMember(e).id>> = Watched
  IN /\ onVoiceUpdate(e.oldState, e.newState)
     /\ Len(voice_sessions') <= MaxSessions
     /\ reply' = NoReply
     /\ last' = IF kind \in {"ignored", "nochange"} THEN [NoEvent EXCEPT !.op = kind]
                ELSE [op |-> kind, guild |-> EventGuild(e), user |-> EventMember(e).id,
                      arg |-> e.newState.channel,
                      pre |-> Cardinality(OpenIds(EventGuild(e), EventMember(e).id))]
     /\ stream' = IF watched /\ kind # "nochange"
                  THEN StreamAfter(stream, kind, nowTs)
                  ELSE stream
     /\ scen' = IF watched
                THEN ScenAfter(scen, e, kind, nowTs, Reading(clock'))
                ELSE scen
     /\ UNCHANGED deferred

\* the same listener, followed for the events of one pair alone
PairVoiceStateUpdate(e) ==
  LET kind == VoiceKind(e)
      g == EventGuild(e)
      u == EventMember(e).id
  IN /\ onVoiceUpdate(e.oldState, e.newState)
     /\ Len(voice_sessions') <= MaxPairSessions
     /\ reply' = NoReply
     /\ last' = IF kind \in {"ignored", "nochange"} THEN [NoEvent EXCEPT !.op = kind]
                ELSE [op |-> kind, guild |-> g, user |-> u,
                      arg |-> e.newState.channel,
                      pre |-> Cardinality(OpenIds(g, u))]
     /\ UNCHANGED <<stream, scen, deferred>>

\* what a message event is: filtered (no guild, or a bot's), failed (no
\* author to read the id of) or message (accepted)
MessageKind(message) ==
  IF message.guild = NoGuild \/ message.author.bot THEN "filtered"
  ELSE IF message.author = NoMember THEN "failed"
  ELSE "message"

\* client.on('messageCreate'); pre: the rows that held the message id before
MessageCreate(message) ==
  /\ logMessageToDB(message)
  /\ Len(messages') <= MaxMessages
  /\ reply' = NoReply
  /\ last' = [op |-> MessageKind(message), guild |-> message.guild,
              user |-> message.author.id, arg |-> message.id,
              pre |-> Cardinality({i \in DOMAIN messages :
                                     messages[i].message_id = message.id})]
  /\ UNCHANGED <<stream, scen, deferred>>

\* client.on('interactionCreate'): the reply is the embed of buildStatsEmbed
InteractionCreate(interaction) ==
  /\ outcome' = "ok"
  /\ reply' = IF ~interaction.chatInput THEN NoReply
              ELSE IF interaction.guild = NoGuild
              THEN [NoReply EXCEPT !.kind = "not in a server"]
              ELSE IF interaction.commandName = "userstats"
              THEN buildStatsEmbed(interaction.guild, interaction.target)
              ELSE NoReply
  /\ last' = [op |-> "interaction", guild |-> interaction.guild,
              user |-> interaction.target, arg |-> interaction.commandName,
              pre |-> IF interaction.chatInput THEN 1 ELSE 0]
  /\ UNCHANGED <<guild_users, messages, voice_sessions, messageIdUnique, clock,
                 stream, scen, deferred>>

\* client.on('interactionCreate') up to its first suspension: a /userstats
\* command in a guild awaits deferReply(), and other handlers may run before
\* it resumes.  messagesThen records, for the history, the message rows of
\* the target at that moment.  One such interaction is in flight at a time.
InteractionDefer(interaction) ==
  /\ deferred = NoDeferred
  /\ interaction.chatInput
  /\ interaction.guild # NoGuild
  /\ interaction.commandName = "userstats"
  /\ deferred' = [guild |-> interaction.guild, target |-> interaction.target,
                  messagesThen |->
                    Len(MessagesOf(interaction.guild, interaction.target))]
  /\ outcome' = "ok"
  /\ reply' = NoReply
  /\ last' = [op |-> "defer", guild |-> interaction.guild,
              user |-> interaction.target, arg |-> interaction.commandName, pre |-> 1]
  /\ UNCHANGED <<guild_users, messages, voice_sessions, messageIdUnique, clock,
                 stream, scen>>

\* Faulty variant: the query also marks its target as seen.
InteractionResumeTouch ==
  /\ deferred # NoDeferred
  /\ reply' = buildStatsEmbed(deferred.guild, deferred.target)
  /\ guild_users' = insertOrUpdateUser(guild_users, deferred.guild, deferred.target, nowTs)
  /\ deferred' = NoDeferred
  /\ outcome' = "ok"
  /\ last' = [op |-> "resume", guild |-> deferred.guild, user |-> deferred.target,
              arg |-> "userstats", pre |-> deferred.messagesThen]
  /\ UNCHANGED <<messages, voice_sessions, messageIdUnique, clock, stream, scen>>

\* Faulty variant: the message count was read before the suspension.
InteractionResumeStale ==
  /\ deferred # NoDeferred
  /\ reply' = [buildStatsEmbed(deferred.guild, deferred.target)
                 EXCEPT !.totalMessages = deferred.messagesThen]
  /\ deferred' = NoDeferred
  /\ outcome' = "ok"
  /\ last' = [op |-> "resume", guild |-> deferred.guild, user |-> deferred.target,
              arg |-> "userstats", pre |-> deferred.messagesThen]
  /\ UNCHANGED <<guild_users, messages, voice_sessions, messageIdUnique, clock,
                 stream, scen>>

\* The rest of the handler: buildStatsEmbed runs its three reads without
\* yielding, then editReply sends the embed.
InteractionResume ==
  /\ deferred # NoDeferred
  /\ reply' = buildStatsEmbed(deferred.guild, deferred.target)
  /\ deferred' = NoDeferred
  /\ outcome' = "ok"
  /\ last' = [op |-> "resume", guild |-> deferred.guild, user |-> deferred.target,
              arg |-> "userstats", pre |-> deferred.messagesThen]
  /\ UNCHANGED <<guild_users, messages, voice_sessions, messageIdUnique, clock,
                 stream, scen>>

\* client.on('interactionCreate') when a read of buildStatsEmbed throws: its
\* catch logs the error and returns the fallback embed, which is sent
InteractionCreateReadFails(interaction) ==
  /\ interaction.chatInput
  /\ interaction.guild # NoGuild
  /\ interaction.commandName = "userstats"
  /\ outcome' = "logged"
  /\ reply' = FallbackEmbed
  /\ last' = [op |-> "read failed", guild |-> interaction.guild,
              user |-> interaction.target, arg |-> interaction.commandName, pre |-> 1]
  /\ UNCHANGED <<guild_users, messages, voice_sessions, messageIdUnique, clock,
                 stream, scen, deferred>>

\* client.on('messageCreate') when a statement of logMessageToDB throws
MessageCreateFails(message, failAt) ==
  /\ logMessageToDBFailing(message, failAt)
  /\ reply' = NoReply
  /\ last' = [op |-> "message failed", guild |-> message.guild,
              user |-> message.author.id, arg |-> failAt,
              pre |-> Cardinality({i \in DOMAIN messages :
                                     messages[i].message_id = message.id})]
  /\ UNCHANGED <<stream, scen, deferred>>

\* client.on('voiceStateUpdate') when a statement of onVoiceUpdate throws
VoiceStateUpdateFails(e, failAt) ==
  /\ onVoiceUpdateFailing(e.oldState, e.newState, failAt)
  /\ reply' = NoReply
  /\ last' = [op |-> "voice failed", guild |-> EventGuild(e),
              user |-> EventMember(e).id, arg |-> failAt,
              pre |-> Cardinality(OpenIds(EventGuild(e), EventMember(e).id))]
  /\ UNCHANGED <<stream, scen, deferred>>

\* secondsToHrsMin applied to the total that reply holds
Render ==
  /\ reply.kind = "none"
  /\ reply' = [reply EXCEPT !.kind = "rendered",
                            !.voiceTime = secondsToHrsMin(reply.totalVoiceSec)]
  /\ last' = [NoEvent EXCEPT !.op = "render"]
  /\ UNCHANGED <<guild_users, messages, voice_sessions, messageIdUnique, clock,
                 outcome, stream, scen, deferred>>

\* a second passes on the wall clock
Tick ==
  /\ clock < MaxTick
  /\ clock' = clock + 1
  /\ outcome' = "ok"
  /\ reply' = NoReply
  /\ last' = [NoEvent EXCEPT !.op = "tick"]
  /\ UNCHANGED <<guild_users, messages, voice_sessions, messageIdUnique, stream, scen,
                 deferred>>

\* ------------------------------------------------------------ specifications
\* The tables are empty when the bot first starts.  The messages table is the
\* one index.js creates (message_id UNIQUE) or, when an earlier version of the
\* bot created data.sqlite and migrate_add_xcol.js added x_link_count to it,
\* the earlier one, which CREATE TABLE IF NOT EXISTS leaves as it is.
Init ==
  /\ guild_users = << >>
  /\ messages = << >>
  /\ voice_sessions = << >>
  /\ messageIdUnique \in BOOLEAN
  /\ clock = 0
  /\ outcome = "ok"
  /\ reply = NoReply
  /\ last = NoEvent
  /\ stream = NoStream
  /\ scen = 0
  /\ deferred = NoDeferred

NextVoice ==
  \/ Tick
  \/ \E e \in VoiceEvents : VoiceStateUpdate(e)
  \/ \E i \in Interactions : InteractionCreate(i)

NextWatched ==
  \/ Tick
  \/ \E e \in VoiceEvents : WatchedVoiceStateUpdate(e)

NextMsg ==
  \/ Tick
  \/ \E m \in MessageEvents : MessageCreate(m)
  \/ \E i \in Interactions : InteractionCreate(i)

Next ==
  \/ Tick
  \/ \E e \in VoiceEvents : VoiceStateUpdate(e)
  \/ \E m \in MessageEvents : MessageCreate(m)
  \/ \E i \in Interactions : InteractionCreate(i)

\* the events of the specification that has all three kinds of handler
BotMessageEvents == {m \in MessageEvents : m.id \in {"m4", "m6", "m7"}}

BotVoiceEvents ==
  {e \in VoiceEvents : EventMember(e) # Human("u2") /\ e.oldState.channel # "B"}

NextBot ==
  \/ \E e \in BotVoiceEvents : VoiceStateUpdate(e)
  \/ \E m \in BotMessageEvents : MessageCreate(m)
  \/ \E i \in Interactions : InteractionDefer(i)
  \/ InteractionResume

NextFail ==
  \/ \E e \in BotVoiceEvents : VoiceStateUpdate(e)
  \/ \E m \in BotMessageEvents : MessageCreate(m)
  \/ \E i \in Interactions : InteractionCreate(i)
  \/ \E e \in BotVoiceEvents, failAt \in {"select", "update", "insert"} :
       VoiceStateUpdateFails(e, failAt)
  \/ \E m \in BotMessageEvents, failAt \in {"upsert", "insert"} :
       MessageCreateFails(m, failAt)
  \/ \E i \in Interactions : InteractionCreateReadFails(i)

\* the durations rendered: every whole minute up to MaxMinutes, with and
\* without a remainder of seconds
Seconds == {60 * a + b : a \in 0..MaxMinutes, b \in {0, 1, 59}}

InitRender ==
  /\ guild_users = << >>
  /\ messages = << >>
  /\ voice_sessions = << >>
  /\ messageIdUnique = TRUE
  /\ clock = 0
  /\ outcome = "ok"
  /\ reply \in {[NoReply EXCEPT !.totalVoiceSec = sec] : sec \in Seconds}
  /\ last = NoEvent
  /\ stream = NoStream
  /\ scen = 0
  /\ deferred = NoDeferred

NextRender == Render

\* the voice events of the watched pair
PairVoiceEvents ==
  {e \in VoiceEvents : <<EventGuild(e), EventMember(e)>> = <<Watched[1], Human(Watched[2])>>}

NextPair ==
  \/ Tick
  \/ \E e \in PairVoiceEvents : PairVoiceStateUpdate(e)

\* the events of two users of one guild, messages and voice
TwoUserMessageEvents == {m \in MessageEvents : m.id \in {"m2", "m4"}}

TwoUserVoiceEvents ==
  {e \in VoiceEvents : <<EventGuild(e), EventMember(e).id>> \in VoicePairs}

NextTwoUsers ==
  \/ \E e \in TwoUserVoiceEvents : VoiceStateUpdate(e)
  \/ \E m \in TwoUserMessageEvents : MessageCreate(m)

\* a first start of index.js: the messages table is the one it creates
InitFresh == Init /\ messageIdUnique

\* voice events and queries only
SpecVoice == InitFresh /\ [][NextVoice]_vars

\* voice events, the stream of the watched pair recorded
SpecWatched == InitFresh /\ [][NextWatched]_vars

\* message events and queries only
SpecMsg == Init /\ [][NextMsg]_vars

\* message events, voice events and queries, the queries suspended at their
\* await; the clock moves when a switch reads it a second time
SpecBot == Init /\ [][NextBot]_vars

\* every handler, any of whose statements may throw
SpecFail == InitFresh /\ [][NextFail]_vars

\* secondsToHrsMin on its own
SpecRender == InitRender /\ [][NextRender]_vars

\* the voice events of one pair, with room for one more session
SpecPair == InitFresh /\ [][NextPair]_vars

\* message and voice events of two users; the clock moves when a switch
\* reads it a second time
SpecTwoUsers == InitFresh /\ [][NextTwoUsers]_vars

Spec == Init /\ [][Next]_vars

\* ================================================================ the claims
\* -------------------------------------------------------------------------- C1
\* C1: after any sequence of voice events, every (guild, user) has at most one
\* voice_sessions row with left_at = NULL.
C1_AtMostOneOpenSession ==
  \A g \in Guilds, u \in Users : Cardinality(OpenIds(g, u)) <= 1

\* -------------------------------------------------------------------------- C2
\* C2: for the events of one (guild, user) with strictly increasing timestamps,
\* the closed rows are as many as the joins a leave or switch followed, and
\* every closed row has duration_seconds = left_at - joined_at.
C2_ClosedRowsCountFollowedJoins ==
  stream.strict =>
    /\ Cardinality(ClosedIds(Watched[1], Watched[2])) = stream.followed
    /\ \A i \in ClosedIds(Watched[1], Watched[2]) :
         voice_sessions[i].duration_seconds =
           <<voice_sessions[i].left_at[1] - voice_sessions[i].joined_at>>

\* -------------------------------------------------------------------------- C3
\* C3: an accepted message whose message_id is already stored leaves the
\* messages table as it is (one row of that id, with the fields of the first
\* delivery) and raises no error.
C3_RedeliveryKeepsOneRow ==
  [][(last'.op = "message" /\ last'.pre >= 1)
       => (messages' = messages /\ outcome' = "ok")]_vars

\* -------------------------------------------------------------------------- C4
\* what a switch does to voice_sessions: the open row the handler selected, if
\* there is one, is closed at the first clock reading, every other row is kept,
\* and a new open row of the new channel is appended at the second reading
SwitchClosesThenOpens ==
  last'.op = "switch" =>
    LET n == Len(voice_sessions)
        g == last'.guild
        u == last'.user
        t1 == nowTs
        t2 == Reading(clock')
    IN /\ Len(voice_sessions') = n + 1
       /\ voice_sessions'[n + 1] =
            [guild_id |-> g, user_id |-> u, channel_id |-> last'.arg,
             joined_at |-> t2, left_at |-> NULL, duration_seconds |-> NULL]
       /\ t1 <= t2
       /\ IF last'.pre = 0
          THEN \A j \in 1..n : voice_sessions'[j] = voice_sessions[j]
          ELSE \E i \in OpenIds(g, u) :
                 /\ voice_sessions'[i] =
                      [voice_sessions[i] EXCEPT
                         !.left_at = <<t1>>,
                         !.duration_seconds = <<t1 - voice_sessions[i].joined_at>>]
                 /\ \A j \in (1..n) \ {i} : voice_sessions'[j] = voice_sessions[j]

\* the rows of the watched pair once its events were exactly the scenario's
ScenarioRows ==
  scen = 3 =>
    SessionsOf(Watched[1], Watched[2]) =
      <<[guild_id |-> "g1", user_id |-> "u1", channel_id |-> "A",
         joined_at |-> 1000, left_at |-> <<1500>>, duration_seconds |-> <<500>>],
        [guild_id |-> "g1", user_id |-> "u1", channel_id |-> "B",
         joined_at |-> 1500, left_at |-> <<1800>>, duration_seconds |-> <<300>>]>>

RECURSIVE SumDurations(_)
SumDurations(ids) ==
  IF ids = {} THEN 0
  ELSE LET i == CHOOSE i \in ids : TRUE
       IN voice_sessions[i].duration_seconds[1] + SumDurations(ids \ {i})

\* C5: the voice total of a stats query for (guild, user) is the sum of
\* duration_seconds over that pair's closed sessions; open sessions add nothing.
C5_VoiceTotalIsClosedSum ==
  (last.op = "interaction" /\ reply.kind = "embed") =>
    reply.totalVoiceSec = SumDurations(ClosedIds(last.guild, last.user))

\* a query for a pair that has a closed session and a session still open
C5_QueryWithOpenSession ==
  /\ last.op = "interaction"
  /\ reply.kind = "embed"
  /\ reply.totalVoiceSec > 0
  /\ OpenIds(last.guild, last.user) # {}

\* -------------------------------------------------------------------------- C6
MessageIdsOf(g, u) ==
  {i \in DOMAIN messages : messages[i].guild_id = g /\ messages[i].user_id = u}

RECURSIVE SumAttachments(_)
SumAttachments(ids) ==
  IF ids = {} THEN 0
  ELSE LET i == CHOOSE i \in ids : TRUE
       IN messages[i].attachment_count + SumAttachments(ids \ {i})

RECURSIVE SumLinks(_)
SumLinks(ids) ==
  IF ids = {} THEN 0
  ELSE LET i == CHOOSE i \in ids : TRUE
       IN messages[i].x_link_count + SumLinks(ids \ {i})

\* C6: for a (guild, user) with n message rows the stats query gives
\* total_messages = n, total_attachments = the sum of their attachment_count
\* and total_links = the sum of their link counts.
C6_MessageTotals ==
  (last.op = "interaction" /\ reply.kind = "embed") =>
    LET ids == MessageIdsOf(last.guild, last.user)
    IN /\ reply.totalMessages = Cardinality(ids)
       /\ reply.totalAttachments = SumAttachments(ids)
       /\ reply.totalXLinks = SumLinks(ids)

\* the example: three messages of one user with attachment counts 0, 2, 1 and
\* link counts 1, 0, 0, queried: 3 messages, 3 attachments, 1 link
C6_ExampleQueried ==
  /\ last.op = "interaction"
  /\ last.guild = "g1"
  /\ last.user = "u1"
  /\ Len(messages) = 3
  /\ [i \in 1..3 |-> messages[i].user_id] = <<"u1", "u1", "u1">>
  /\ [i \in 1..3 |-> messages[i].attachment_count] = <<0, 2, 1>>
  /\ [i \in 1..3 |-> messages[i].x_link_count] = <<1, 0, 0>>
  /\ reply.totalMessages = 3
  /\ reply.totalAttachments = 3
  /\ reply.totalXLinks = 1

\* -------------------------------------------------------------------------- C7
NoRowsOf(g, u) ==
  /\ \A i \in DOMAIN guild_users :
       ~(guild_users[i].guild_id = g /\ guild_users[i].user_id = u)
  /\ MessageIdsOf(g, u) = {}
  /\ OpenIds(g, u) \cup ClosedIds(g, u) = {}

\* C7: the stats query for a (guild, user) with no row in any table answers
\* with the embed, all four totals 0.
C7_NoRowsAllZero ==
  (/\ last.op = "interaction" /\ last.pre = 1 /\ last.guild # NoGuild
   /\ last.arg = "userstats" /\ NoRowsOf(last.guild, last.user))
    => reply = [kind |-> "embed", totalMessages |-> 0, totalAttachments |-> 0,
                totalVoiceSec |-> 0, totalXLinks |-> 0, voiceTime |-> "0h 0m"]

\* a query for a pair without rows while the tables hold rows of others
C7_QueryForUnknownUser ==
  /\ last.op = "interaction"
  /\ reply.kind = "embed"
  /\ NoRowsOf(last.guild, last.user)
  /\ messages # << >>
  /\ guild_users # << >>

\* -------------------------------------------------------------------------- C8
\* C8: a leave event for a (guild, user) without an open session creates no
\* row, changes no row and ends without an error.
C8_LeaveWithoutSessionIsNoOp ==
  [][(last'.op = "leave" /\ last'.pre = 0)
       => /\ guild_users' = guild_users
          /\ messages' = messages
          /\ voice_sessions' = voice_sessions
          /\ outcome' = "ok"]_vars

\* such a leave, handled while the pair has a closed session and another
\* pair a session that is open
C8_LeaveWithoutSessionSeen ==
  /\ last.op = "leave"
  /\ last.pre = 0
  /\ ClosedIds(last.guild, last.user) # {}
  /\ \E i \in DOMAIN voice_sessions : voice_sessions[i].left_at = NULL

\* -------------------------------------------------------------------------- C9
PresenceIdsOf(g, u) ==
  {i \in DOMAIN guild_users :
     guild_users[i].guild_id = g /\ guild_users[i].user_id = u}

PresenceStep ==
  /\ Len(guild_users') >= Len(guild_users)
  /\ \A i \in DOMAIN guild_users :
       /\ guild_users'[i].guild_id = guild_users[i].guild_id
       /\ guild_users'[i].user_id = guild_users[i].user_id
       /\ guild_users'[i].first_seen = guild_users[i].first_seen
       /\ guild_users'[i].last_seen >= guild_users[i].last_seen
  /\ \A i \in DOMAIN guild_users' :
       /\ guild_users'[i].first_seen <= guild_users'[i].last_seen
       /\ \A j \in DOMAIN guild_users' :
            (/\ guild_users'[j].guild_id = guild_users'[i].guild_id
             /\ guild_users'[j].user_id = guild_users'[i].user_id) => j = i
  /\ IF last'.op = "message"
     THEN LET ids == PresenceIdsOf(last'.guild, last'.user)
          IN IF ids = {}
             THEN guild_users' =
                    Append(guild_users,
                           [guild_id |-> last'.guild, user_id |-> last'.user,
                            first_seen |-> nowTs, last_seen |-> nowTs])
             ELSE guild_users' =
                    [i \in DOMAIN guild_users |->
                       IF i \in ids
                       THEN [guild_users[i] EXCEPT !.last_seen = nowTs]
                       ELSE guild_users[i]]
     ELSE guild_users' = guild_users

\* C9: the presence row of a (guild, user) is created by its first accepted
\* message with first_seen = last_seen = now; every later accepted message
\* sets only last_seen, to now; first_seen never changes, last_seen never
\* decreases, no row is deleted, and first_seen <= last_seen.
C9_PresenceFirstAndLastSeen == [][PresenceStep]_vars

\* a later message has moved last_seen past first_seen
C9_SeenAgainLater ==
  /\ last.op = "message"
  /\ \E i \in PresenceIdsOf(last.guild, last.user) :
       guild_users[i].first_seen < guild_users[i].last_seen

\* ------------------------------------------------------------------------- C10
SessionRowsStep ==
  /\ Len(voice_sessions') >= Len(voice_sessions)
  /\ \A i \in DOMAIN voice_sessions :
       \/ voice_sessions'[i] = voice_sessions[i]
       \/ /\ voice_sessions[i].left_at = NULL
          /\ last'.op \in {"leave", "switch"}
          /\ voice_sessions'[i] =
               [voice_sessions[i] EXCEPT
                  !.left_at = <<nowTs>>,
                  !.duration_seconds = <<nowTs - voice_sessions[i].joined_at>>]
  /\ \A i \in (Len(voice_sessions) + 1)..Len(voice_sessions') :
       /\ last'.op \in {"join", "switch"}
       /\ voice_sessions'[i].guild_id = last'.guild
       /\ voice_sessions'[i].user_id = last'.user
       /\ voice_sessions'[i].channel_id = last'.arg
       /\ voice_sessions'[i].left_at = NULL
       /\ voice_sessions'[i].duration_seconds = NULL

\* C10: a voice_sessions row is created open, by a join or the open half of a
\* switch; its only change is the one that sets left_at and duration_seconds;
\* a closed row never changes again, and no row is deleted.
C10_SessionRowClosedOnce == [][SessionRowsStep]_vars

\* a closed session of a pair, and a later leave of that pair handled
C10_LeaveAfterClose ==
  /\ last.op = "leave"
  /\ last.pre = 0
  /\ Cardinality(ClosedIds(last.guild, last.user)) = 2

\* ------------------------------------------------------------------------- C11
\* C11: a voice event whose channel does not change (old and new both none, or
\* both the same channel) leaves every table unchanged: no session is opened
\* and none is closed.
C11_NoChangeEventIsIgnored ==
  [][last'.op = "nochange"
       => /\ guild_users' = guild_users
          /\ messages' = messages
          /\ voice_sessions' = voice_sessions]_vars

\* such an event handled while every pair that sends them has a session open
C11_NoChangeWhileOpen ==
  /\ last.op = "nochange"
  /\ \A p \in VoicePairs : OpenIds(p[1], p[2]) # {}

\* ------------------------------------------------------------------------- C12
\* C12: filtered events change nothing: a message event without a guild or
\* from a bot, and a voice event whose member is a bot or cannot be resolved,
\* leave guild_users, messages and voice_sessions unchanged.
C12_FilteredEventsChangeNothing ==
  [][last'.op \in {"filtered", "ignored"}
       => /\ guild_users' = guild_users
          /\ messages' = messages
          /\ voice_sessions' = voice_sessions]_vars

\* a filtered message handled while all three tables hold rows
C12_FilteredWhileRows ==
  /\ last.op = "filtered"
  /\ last.user = Bot.id
  /\ guild_users # << >>
  /\ messages # << >>
  /\ voice_sessions # << >>

\* ------------------------------------------------------------------------- C13
\* C13: the stats query is a pure read: buildStatsEmbed, for any (guild, user)
\* and in any store state, leaves guild_users, messages and voice_sessions
\* unchanged.
C13_StatsQueryIsPureRead ==
  [][last'.op = "resume"
       => /\ guild_users' = guild_users
          /\ messages' = messages
          /\ voice_sessions' = voice_sessions]_vars

\* a query answered for a pair that has rows in all three tables
C13_QueryOverRows ==
  /\ last.op = "resume"
  /\ reply.kind = "embed"
  /\ PresenceIdsOf(last.guild, last.user) # {}
  /\ MessageIdsOf(last.guild, last.user) # {}
  /\ OpenIds("g1", "u1") \cup ClosedIds("g1", "u1") # {}

\* ------------------------------------------------------------------------- C14
\* C14: the four totals of one stats query are computed against the same store
\* state: whatever handlers ran while the query was suspended, the totals of
\* its reply are all those of the store as it is when buildStatsEmbed runs.
C14_TotalsOfOneSnapshot ==
  last.op = "resume" =>
    /\ reply.kind = "embed"
    /\ reply.totalMessages = Cardinality(MessageIdsOf(last.guild, last.user))
    /\ reply.totalAttachments = SumAttachments(MessageIdsOf(last.guild, last.user))
    /\ reply.totalXLinks = SumLinks(MessageIdsOf(last.guild, last.user))
    /\ reply.totalVoiceSec = SumDurations(ClosedIds(last.guild, last.user))

\* a query during whose suspension a message of its target was stored
C14_MessageDuringSuspension ==
  /\ last.op = "resume"
  /\ reply.totalMessages > last.pre
  /\ voice_sessions # << >>

\* ------------------------------------------------------------------------- C20
\* C20: voice events never create or modify a presence row or a message row:
\* onVoiceUpdate leaves guild_users and messages unchanged.
C20_VoiceEventsKeepOtherTables ==
  [][last'.op \in {"join", "leave", "switch", "nochange", "ignored"}
       => guild_users' = guild_users /\ messages' = messages]_vars

\* a user with voice sessions, closed and open, and no presence row, beside
\* a user who has one
C20_VoiceOnlyUser ==
  /\ last.op = "join"
  /\ OpenIds("g1", "u1") # {}
  /\ ClosedIds("g1", "u1") # {}
  /\ PresenceIdsOf("g1", "u1") = {}
  /\ PresenceIdsOf("g1", "u2") # {}

\* ------------------------------------------------------------------------- C15
\* C15: when a read fails during the stats query, the reply is the fallback:
\* it says the stats could not be built, carries no count, differs from the
\* reply for a user without activity, and the failure stays in buildStatsEmbed.
C15_ReadFailureGivesFallback ==
  [][last'.op = "read failed"
       => /\ reply'.kind = "Error building stats"
          /\ reply'.kind # buildStatsEmbed("g2", "u2").kind
          /\ reply'.totalMessages = NULL
          /\ reply'.totalAttachments = NULL
          /\ reply'.totalVoiceSec = NULL
          /\ reply'.totalXLinks = NULL
          /\ outcome' = "logged"
          /\ store' = store]_vars

\* a failed query for a user who does have rows
C15_FailedQueryOverRows ==
  /\ last.op = "read failed"
  /\ MessageIdsOf(last.guild, last.user) # {}
  /\ voice_sessions # << >>

\* ------------------------------------------------------------------------- C16
\* C16: a persistence failure while a message or voice event is handled is
\* caught in the handler, and the event is dropped: the store is as if the
\* event had not been delivered, so that later events are handled the same.
C16_FailedEventIsDropped ==
  [][last'.op \in {"message failed", "voice failed"}
       => outcome' = "logged" /\ store' = store]_vars

\* ------------------------------------------------------------------------- C17
\* a number below 100 in decimal digits
Decimal(n) ==
  LET digit == <<"0", "1", "2", "3", "4", "5", "6", "7", "8", "9">>
  IN IF n < 10 THEN digit[n + 1]
     ELSE digit[(n \div 10) + 1] \o digit[(n % 10) + 1]

\* C17: secondsToHrsMin(sec), for a whole sec >= 0, is "<h>h <m>m" with
\* h = sec div 3600 and m = (sec mod 3600) div 60, the remaining seconds
\* dropped, so 0 <= m <= 59; 5400 gives "1h 30m" and 0 gives "0h 0m".
C17_HoursAndMinutes ==
  reply.kind = "rendered" =>
    LET sec == reply.totalVoiceSec
    IN /\ \E h \in 0..99, m \in 0..59 :
            /\ 3600 * h + 60 * m <= sec
            /\ sec < 3600 * h + 60 * m + 60
            /\ reply.voiceTime = Decimal(h) \o "h " \o Decimal(m) \o "m"
       /\ sec = 5400 => reply.voiceTime = "1h 30m"
       /\ sec = 0 => reply.voiceTime = "0h 0m"

\* 5400 seconds rendered
C17_NinetyMinutes ==
  /\ reply.kind = "rendered"
  /\ reply.totalVoiceSec = 5400
  /\ reply.voiceTime = "1h 30m"

\* ------------------------------------------------------------------------- C18
\* C18: a leave or switch that arrives while the (guild, user) has more than
\* one open session closes exactly one row, one of the greatest joined_at,
\* with left_at = now and duration_seconds = now - its joined_at; every other
\* row is left as it was.
C18_ClosesTheLatestOpenRow ==
  [][(last'.op \in {"leave", "switch"} /\ last'.pre > 1)
       => LET open == OpenIds(last'.guild, last'.user)
          IN \E i \in open :
               /\ \A j \in open :
                    voice_sessions[j].joined_at <= voice_sessions[i].joined_at
               /\ voice_sessions'[i] =
                    [voice_sessions[i] EXCEPT
                       !.left_at = <<nowTs>>,
                       !.duration_seconds = <<nowTs - voice_sessions[i].joined_at>>]
               /\ \A j \in DOMAIN voice_sessions \ {i} :
                    voice_sessions'[j] = voice_sessions[j]]_vars

\* a switch that found two open sessions: the later one is closed, after some
\* time, the earlier one is still open
C18_SwitchOverTwoOpen ==
  /\ last.op = "switch"
  /\ last.pre = 2
  /\ \E i, j \in DOMAIN voice_sessions :
       /\ voice_sessions[i].left_at = NULL
       /\ voice_sessions[j].left_at # NULL
       /\ voice_sessions[i].joined_at < voice_sessions[j].joined_at
       /\ voice_sessions[j].duration_seconds[1] > 0

\* ------------------------------------------------------------------------- C19
\* C19: when a message whose message_id is already stored is delivered again,
\* the messages table is unchanged, but the presence row of its author has
\* last_seen set to the time of this delivery, first_seen as it was.
C19_RedeliveryStillMarksSeen ==
  [][(last'.op = "message" /\ last'.pre >= 1)
       => /\ messages' = messages
          /\ PresenceIdsOf(last'.guild, last'.user) # {}
          /\ \A i \in PresenceIdsOf(last'.guild, last'.user) :
               guild_users' = [guild_users EXCEPT ![i].last_seen = nowTs]]_vars

\* ------------------------------------------------------------------------- C21
PresenceOf(g, u) ==
  SelectSeq(guild_users, LAMBDA r : r.guild_id = g /\ r.user_id = u)

\* C21: a message or voice event of one (guild, user) leaves every row of
\* every other pair as it was, so the stats of every other pair are the same
\* before and after the event.
C21_OtherPairsUntouched ==
  [][last'.op \in {"message", "join", "leave", "switch"}
       => \A g \in Guilds, u \in Users :
            <<g, u>> # <<last'.guild, last'.user>>
              => /\ PresenceOf(g, u)' = PresenceOf(g, u)
                 /\ MessagesOf(g, u)' = MessagesOf(g, u)
                 /\ SessionsOf(g, u)' = SessionsOf(g, u)
                 /\ buildStatsEmbed(g, u)' = buildStatsEmbed(g, u)]_vars

\* a session of one user closed while the other user of the guild has a
\* session open, joined no earlier, and a message stored
C21_LeaveBesideAnotherUser ==
  /\ last.op = "leave"
  /\ last.pre = 1
  /\ \E u \in Users \ {last.user} :
       /\ MessageIdsOf(last.guild, u) # {}
       /\ \E i \in OpenIds(last.guild, u), j \in ClosedIds(last.guild, last.user) :
            voice_sessions[j].joined_at <= voice_sessions[i].joined_at

====
